---- MODULE Spec2Model ----
(***************************************************************************)
(* Model of the log dashboard: the useWebSocket hook (connection manager   *)
(* and ingestion buffer, src/unnamed/part_000 lines 404-623) and the       *)
(* LogDashboard component (session registry and filter/search engine,      *)
(* src/src/components/LogDashboard.tsx).                                    *)
(*                                                                         *)
(* Every action is one event of the single-threaded event loop: a DOM      *)
(* event handler, a socket callback or a timer callback, followed by the   *)
(* re-render and the effects React runs for the state it changed.          *)
(* Strings are sequences of one-character strings, so that startsWith,     *)
(* toLowerCase and includes are computed and not assumed.                  *)
(***************************************************************************)
EXTENDS Integers, Sequences, FiniteSets, TLC

\* ------------------------------------------------------------------ bounds
MaxFrames == 2       \* frames delivered over all sockets
MaxSockets == 3      \* WebSocket objects constructed
MaxSessionIds == 2   \* ids handed out by nanoid()
MaxUrlChanges == 1   \* times the parent changes the websocketUrl prop
MaxBurst == 3        \* frames delivered in the specifications of the buffer

\* --------------------------------------------------------- hook options
autoReconnect == TRUE
maxReconnectAttempts == 2

\* ----------------------------------------------------------------- strings
wsScheme == <<"w", "s", ":", "/", "/">>
wssScheme == <<"w", "s", "s", ":", "/", "/">>

startsWith(s, p) == Len(s) >= Len(p) /\ SubSeq(s, 1, Len(p)) = p

lowerChar(c) ==
  CASE c = "A" -> "a"
    [] c = "B" -> "b"
    [] c = "F" -> "f"
    [] OTHER -> c

toLowerCase(s) == [i \in 1..Len(s) |-> lowerChar(s[i])]

includes(s, q) ==
  \E i \in 0..(Len(s) - Len(q)) : SubSeq(s, i + 1, i + Len(q)) = q

\* ------------------------------------------------------------------- types
LogLevels == {"INFO", "DEBUG", "WARNING", "ERROR"}

levels == <<"DEBUG", "INFO", "WARNING", "ERROR">>

\* The endpoints the parent page can hand down (Index.tsx passes the text of
\* the input box unchecked): two accepted schemes and one rejected scheme.
Urls ==
  { wsScheme \o <<"a">>,
    wssScheme \o <<"b">>,
    <<"h", "t", "t", "p", ":", "/", "/", "a">> }

DefaultUrl == wsScheme \o <<"a">>

\* Payloads of inbound frames (event.data).  A well-formed JSON text is
\* represented by the value JSON.parse returns for it, any other text by
\* its characters.
Frames ==
  { [json |-> TRUE, raw |-> <<>>, level |-> "INFO", message |-> <<"a", "b">>,
     name |-> <<"m">>, function |-> <<"f">>, line |-> 1],
    [json |-> TRUE, raw |-> <<>>, level |-> "ERROR", message |-> <<"B">>,
     name |-> <<"m">>, function |-> <<"A", "b">>, line |-> 2],
    [json |-> TRUE, raw |-> <<>>, level |-> "WARNING", message |-> <<"c">>,
     name |-> <<"m">>, function |-> <<"f">>, line |-> 3],
    [json |-> TRUE, raw |-> <<>>, level |-> "DEBUG", message |-> <<"b">>,
     name |-> <<"m">>, function |-> <<"f">>, line |-> 5],
    [json |-> TRUE, raw |-> <<>>, level |-> "TRACE", message |-> <<"a">>,
     name |-> <<"m">>, function |-> <<"f">>, line |-> 4],
    [json |-> FALSE, raw |-> <<"x">>, level |-> "", message |-> <<>>,
     name |-> <<>>, function |-> <<>>, line |-> 0] }

\* The frames of the session-registry specification: one well-formed record.
SessionFrames == {f \in Frames : f.level = "INFO"}

SearchTerms == { <<>>, <<"a">>, <<"A", "B">> }

\* JSON.parse(event.data) as LogMessage: the parsed value, unvalidated, or a
\* SyntaxError.
JSONparse(data, now) ==
  IF data.json
    THEN [ok |-> TRUE,
          value |-> [time |-> now, level |-> data.level, message |-> data.message,
                     name |-> data.name, function |-> data.function,
                     line |-> data.line]]
    ELSE [ok |-> FALSE, value |-> <<>>]

FailedToParse ==
  <<"F", "a", "i", "l", "e", "d", " ", "t", "o", " ", "p", "a", "r", "s", "e",
    " ", "l", "o", "g", ":", " ">>

\* The placeholder with a message that leaves out event.data.
errorLogNoPayload(data, now) ==
  [time |-> now, level |-> "ERROR", message |-> FailedToParse,
   name |-> <<"w", "e", "b", "s", "o", "c", "k", "e", "t">>,
   function |-> <<"o", "n", "m", "e", "s", "s", "a", "g", "e">>,
   line |-> 0]

errorLog(data, now) ==
  [time |-> now, level |-> "ERROR", message |-> FailedToParse \o data.raw,
   name |-> <<"w", "e", "b", "s", "o", "c", "k", "e", "t">>,
   function |-> <<"o", "n", "m", "e", "s", "s", "a", "g", "e">>,
   line |-> 0]

\* ------------------------------------------------------------------- state
VARIABLES
  \* LogDashboard (props and useState)
  websocketUrl,         \* prop handed down by the parent page
  urlChanges,           \* number of prop changes so far (bounds the model)
  mounted,              \* the component has not been disposed
  sessions,             \* sequence of [id, websocketUrl, logs]
  activeSessionId,
  nanoidCount,          \* ids handed out by nanoid() so far
  searchTerm,
  levelFilters,
  filteredLogs,
  levelCounts,
  isPausedState,        \* LogDashboard's isPaused state (the Pause/Play icon)
  \* useWebSocket (useState and useRef)
  logs,
  status,
  sockets,              \* every WebSocket constructed: [url, readyState]
  socketRef,            \* index into sockets, 0 for null
  reconnectAttemptsRef,
  reconnectTimeoutRef,  \* id of the last reconnect timer set, 0 for null
  reconnectTimers,      \* pending reconnect timers: [id, url of the closure]
  timerSeq,             \* last timer id handed out by window.setTimeout
  isPaused,
  logBufferRef,
  processingRef,
  flushTimers,          \* pending throttle timers of processLogBuffer
  \* history (read by the properties only)
  clock,                \* frames delivered so far; the receipt time of a frame
  enqueued,             \* records pushed to logBufferRef so far
  everOpened,           \* some socket has received its open event
  held,                 \* receipt times of the records held back by a pause since the
                        \* last clear: delivered while paused, or pending at pause()
  pausedArrivals        \* receipt times of the frames delivered during the current pause

dashVars ==
  <<websocketUrl, urlChanges, mounted, sessions, activeSessionId, nanoidCount,
    searchTerm, levelFilters, filteredLogs, levelCounts, isPausedState>>

hookVars ==
  <<logs, status, sockets, socketRef, reconnectAttemptsRef, reconnectTimeoutRef,
    reconnectTimers, timerSeq, isPaused, logBufferRef, processingRef, flushTimers,
    enqueued>>

histVars == <<clock, everOpened, held, pausedArrivals>>

vars == <<dashVars, hookVars, histVars>>

\* The hook's state as one record, so that the callbacks compose.
Hook ==
  [mounted |-> mounted, logs |-> logs, status |-> status, sockets |-> sockets,
   socketRef |-> socketRef, reconnectAttemptsRef |-> reconnectAttemptsRef,
   reconnectTimeoutRef |-> reconnectTimeoutRef, reconnectTimers |-> reconnectTimers,
   timerSeq |-> timerSeq, isPaused |-> isPaused, logBufferRef |-> logBufferRef,
   processingRef |-> processingRef, flushTimers |-> flushTimers,
   enqueued |-> enqueued]

\* --------------------------------------------------------- useWebSocket
\* A state setter of a disposed component changes nothing.
setLogs(h, v) == IF h.mounted THEN [h EXCEPT !.logs = v] ELSE h

setStatus(h, v) == IF h.mounted THEN [h EXCEPT !.status = v] ELSE h

\* processLogBuffer without setting the in-progress flag.
processLogBufferNoFlag(h) ==
  IF h.processingRef \/ h.isPaused \/ Len(h.logBufferRef) = 0
    THEN h
    ELSE setLogs([h EXCEPT !.logBufferRef = <<>>,
                           !.flushTimers = @ + 1],
                 h.logBufferRef \o h.logs)

\* processLogBuffer putting the batch behind the visible list.
processLogBufferAppend(h) ==
  IF h.processingRef \/ h.isPaused \/ Len(h.logBufferRef) = 0
    THEN h
    ELSE setLogs([h EXCEPT !.processingRef = TRUE,
                           !.logBufferRef = <<>>,
                           !.flushTimers = @ + 1],
                 h.logs \o h.logBufferRef)

\* processLogBuffer without the empty-queue check.
processLogBufferNoEmptyCheck(h) ==
  IF h.processingRef \/ h.isPaused
    THEN h
    ELSE setLogs([h EXCEPT !.processingRef = TRUE,
                           !.logBufferRef = <<>>,
                           !.flushTimers = @ + 1],
                 h.logBufferRef \o h.logs)

processLogBuffer(h) ==
  IF h.processingRef \/ h.isPaused \/ Len(h.logBufferRef) = 0
    THEN h
    ELSE setLogs([h EXCEPT !.processingRef = TRUE,
                           !.logBufferRef = <<>>,
                           !.flushTimers = @ + 1],
                 h.logBufferRef \o h.logs)

\* The callback that resets the flag and does not look at the queue again.
flushTimerCallbackIdle(h) ==
  [h EXCEPT !.processingRef = FALSE, !.flushTimers = @ - 1]

\* The callback of the setTimeout of processLogBuffer.
flushTimerCallback(h) ==
  LET h1 == [h EXCEPT !.processingRef = FALSE, !.flushTimers = @ - 1]
  IN IF Len(h1.logBufferRef) > 0 THEN processLogBuffer(h1) ELSE h1

\* clearLogs that empties the pending queue and leaves the visible list.
clearLogsQueueOnly(h) == [h EXCEPT !.logBufferRef = <<>>]

\* clearLogs without the reset of the pending queue.
clearLogsKeepQueue(h) == setLogs(h, <<>>)

clearLogs(h) == [setLogs(h, <<>>) EXCEPT !.logBufferRef = <<>>]

togglePause(h) == [h EXCEPT !.isPaused = ~@]

\* WebSocket.close(): a connecting or open socket starts closing; its close
\* event is delivered later.
socketClose(socks, s) ==
  IF socks[s].readyState \in {"CONNECTING", "OPEN"}
    THEN [socks EXCEPT ![s].readyState = "CLOSING"]
    ELSE socks

\* new WebSocket(url) throws a SyntaxError for a URL it cannot parse: here a
\* scheme with no host.
constructorThrows(url) == url \in {wsScheme, wssScheme}

scheduleReconnect(h, url) ==
  [h EXCEPT !.timerSeq = @ + 1,
            !.reconnectTimers = @ \cup {[id |-> h.timerSeq + 1, url |-> url]},
            !.reconnectTimeoutRef = h.timerSeq + 1]

connect(h, url) ==
  LET h1 == IF h.socketRef # 0
              THEN [h EXCEPT !.sockets = socketClose(@, h.socketRef)]
              ELSE h
      h2 == setStatus(h1, "connecting")
  IN IF ~startsWith(url, wsScheme) /\ ~startsWith(url, wssScheme)
       THEN setStatus(h2, "disconnected")
       ELSE IF constructorThrows(url)
         THEN LET h3 == setStatus(h2, "disconnected")
              IN IF autoReconnect /\ h3.reconnectAttemptsRef < maxReconnectAttempts
                   THEN scheduleReconnect(h3, url)
                   ELSE h3
         ELSE [h2 EXCEPT !.sockets = Append(@, [url |-> url, readyState |-> "CONNECTING"]),
                         !.socketRef = Len(h2.sockets) + 1]

\* onopen that leaves the attempt counter as it is.
onopenNoReset(h) == setStatus(h, "connected")

onopen(h) == [setStatus(h, "connected") EXCEPT !.reconnectAttemptsRef = 0]

\* onmessage as it was before the buffer was introduced (part_000 lines
\* 318-336: the record goes straight to the list), without the pause check.
onmessageUnbuffered(h, data, now) ==
  LET p == JSONparse(data, now)
      rec == IF p.ok THEN p.value ELSE errorLog(data, now)
  IN setLogs([h EXCEPT !.enqueued = @ + 1], <<rec>> \o h.logs)

onmessage(h, data, now) ==
  IF h.isPaused
    THEN h
    ELSE LET p == JSONparse(data, now)
             rec == IF p.ok THEN p.value ELSE errorLog(data, now)
             h1 == [h EXCEPT !.logBufferRef = Append(@, rec), !.enqueued = @ + 1]
         IN IF ~h1.processingRef THEN processLogBuffer(h1) ELSE h1

\* onclose with the attempt cap off by one (<= for <).
oncloseOffByOne(h, url) ==
  LET h1 == setStatus(h, "disconnected")
  IN IF autoReconnect /\ h1.reconnectAttemptsRef <= maxReconnectAttempts
       THEN scheduleReconnect(h1, url)
       ELSE h1

\* url is the endpoint of the connect closure that created the socket.
onclose(h, url) ==
  LET h1 == setStatus(h, "disconnected")
  IN IF autoReconnect /\ h1.reconnectAttemptsRef < maxReconnectAttempts
       THEN scheduleReconnect(h1, url)
       ELSE h1

\* The callback of the reconnect setTimeout.
reconnectCallback(h, url) ==
  connect([h EXCEPT !.reconnectAttemptsRef = @ + 1], url)

\* The cleanup of the connect effect.
effectCleanup(h) ==
  LET h1 == IF h.socketRef # 0
              THEN [h EXCEPT !.sockets = socketClose(@, h.socketRef)]
              ELSE h
  IN IF h1.reconnectTimeoutRef # 0
       THEN [h1 EXCEPT !.reconnectTimers =
                         {t \in @ : t.id # h1.reconnectTimeoutRef}]
       ELSE h1

\* --------------------------------------------------------- LogDashboard
\* sessions.find(session => session.id === activeSessionId) || sessions[0]
activeSession(sess, act) ==
  IF \E i \in DOMAIN sess : sess[i].id = act
    THEN sess[CHOOSE i \in DOMAIN sess :
                /\ sess[i].id = act
                /\ \A j \in DOMAIN sess : sess[j].id = act => i <= j]
    ELSE sess[1]

\* The predicate of logs.filter in the filter effect.  levelFilters[log.level]
\* is undefined, so falsy, for a level that is no key of the mapping.
matchesFilter(log, lf, st) ==
  LET matchesLevel == IF log.level \in DOMAIN lf THEN lf[log.level] ELSE FALSE
      matchesSearch ==
        \/ Len(st) = 0
        \/ includes(toLowerCase(log.message), toLowerCase(st))
        \/ includes(toLowerCase(log.name), toLowerCase(st))
        \/ includes(toLowerCase(log.function), toLowerCase(st))
  IN matchesLevel /\ matchesSearch

\* The filter effect showing the kept records oldest first.
filterLogsReversed(lg, lf, st) ==
  LET keep(log) == matchesFilter(log, lf, st)
      kept == SelectSeq(lg, keep)
  IN [i \in 1..Len(kept) |-> kept[Len(kept) + 1 - i]]

filterLogs(lg, lf, st) ==
  LET keep(log) == matchesFilter(log, lf, st)
  IN SelectSeq(lg, keep)

\* The count of the filter effect with counts[log.level] = 1 for
\* counts[log.level]++.
countLevelsAssigned(lg) ==
  [l \in LogLevels \cup {lg[i].level : i \in DOMAIN lg} |->
     IF l \in LogLevels
       THEN IF \E i \in DOMAIN lg : lg[i].level = l THEN 1 ELSE 0
       ELSE "NaN"]

\* counts[log.level]++ over the four zero-initialised keys; a level that is
\* no key of counts yields a fifth key holding NaN.
countLevels(lg) ==
  [l \in LogLevels \cup {lg[i].level : i \in DOMAIN lg} |->
     IF l \in LogLevels
       THEN Cardinality({i \in DOMAIN lg : lg[i].level = l})
       ELSE "NaN"]

\* The session-log sync effect: runs when logs or activeSessionId changed.
syncSessionLogs(sess, act, lg) ==
  IF Len(lg) > 0
    THEN [i \in DOMAIN sess |->
            IF sess[i].id = act THEN [sess[i] EXCEPT !.logs = lg] ELSE sess[i]]
    ELSE sess

\* The re-render after an event and the effects it runs, in the order the
\* component declares them: the connect effect of useWebSocket (when the
\* active session's endpoint changed: cleanup, then connect), the sync effect,
\* the filter effect.  h, sess, act, lf, st are the values the event left.
\* With no session left activeSession is undefined and the render throws:
\* React disposes of the component, which runs the cleanup of the effects.
Render(h, sess, act, lf, st) ==
  LET thrown == Len(sess) = 0
      oldUrl == activeSession(sessions, activeSessionId).websocketUrl
      newUrl == IF thrown THEN oldUrl ELSE activeSession(sess, act).websocketUrl
      h1 == IF thrown
              THEN [effectCleanup(h) EXCEPT !.mounted = FALSE]
              ELSE IF h.mounted /\ newUrl # oldUrl
                THEN connect(effectCleanup(h), newUrl)
                ELSE h
      sess1 == IF ~thrown /\ (h1.logs # logs \/ act # activeSessionId)
                 THEN syncSessionLogs(sess, act, h1.logs)
                 ELSE sess
      shown == IF thrown THEN <<>> ELSE activeSession(sess1, act).logs
  IN /\ Len(h1.sockets) <= MaxSockets
     /\ logs' = h1.logs
     /\ status' = h1.status
     /\ sockets' = h1.sockets
     /\ socketRef' = h1.socketRef
     /\ reconnectAttemptsRef' = h1.reconnectAttemptsRef
     /\ reconnectTimeoutRef' = h1.reconnectTimeoutRef
     /\ reconnectTimers' = h1.reconnectTimers
     /\ timerSeq' = h1.timerSeq
     /\ isPaused' = h1.isPaused
     /\ logBufferRef' = h1.logBufferRef
     /\ processingRef' = h1.processingRef
     /\ flushTimers' = h1.flushTimers
     /\ enqueued' = h1.enqueued
     /\ mounted' = h1.mounted
     /\ sessions' = sess1
     /\ activeSessionId' = act
     /\ levelFilters' = lf
     /\ searchTerm' = st
     /\ filteredLogs' = filterLogs(shown, lf, st)
     /\ levelCounts' = countLevels(shown)

\* An event of the hook: the dashboard's own state is as before.
HookEvent(h) == Render(h, sessions, activeSessionId, levelFilters, searchTerm)

\* ---------------------------------------------------------------- Init
Init ==
  /\ websocketUrl = DefaultUrl
  /\ urlChanges = 0
  /\ mounted = TRUE
  /\ sessions = <<[id |-> 0, websocketUrl |-> DefaultUrl, logs |-> <<>>]>>
  /\ activeSessionId = 0
  /\ nanoidCount = 0
  /\ searchTerm = <<>>
  /\ levelFilters = [l \in LogLevels |-> TRUE]
  /\ filteredLogs = <<>>
  /\ levelCounts = [l \in LogLevels |-> 0]
  /\ isPausedState = FALSE
  /\ logs = <<>>
  /\ status = "connecting"
  /\ sockets = <<[url |-> DefaultUrl, readyState |-> "CONNECTING"]>>
  /\ socketRef = 1
  /\ reconnectAttemptsRef = 0
  /\ reconnectTimeoutRef = 0
  /\ reconnectTimers = {}
  /\ timerSeq = 0
  /\ isPaused = FALSE
  /\ logBufferRef = <<>>
  /\ processingRef = FALSE
  /\ flushTimers = 0
  /\ clock = 0
  /\ enqueued = 0
  /\ everOpened = FALSE
  /\ held = {}
  /\ pausedArrivals = {}

\* -------------------------------------------------- socket and timer events
SocketOpen(s) ==
  /\ sockets[s].readyState = "CONNECTING"
  /\ HookEvent(onopen([Hook EXCEPT !.sockets[s].readyState = "OPEN"]))
  /\ everOpened' = TRUE
  /\ UNCHANGED <<websocketUrl, urlChanges, nanoidCount, isPausedState, clock, held,
                 pausedArrivals>>

\* A frame is delivered to a socket only while it is open.
SocketMessage(s, data) ==
  /\ sockets[s].readyState = "OPEN"
  /\ clock < MaxFrames
  /\ clock' = clock + 1
  /\ held' = IF isPaused THEN held \cup {clock + 1} ELSE held
  /\ pausedArrivals' = IF isPaused THEN pausedArrivals \cup {clock + 1}
                                   ELSE pausedArrivals
  /\ HookEvent(onmessage(Hook, data, clock + 1))
  /\ UNCHANGED <<websocketUrl, urlChanges, nanoidCount, isPausedState, everOpened>>

\* The close event: the connection failed, the peer closed it, or close() was
\* called on it earlier.
SocketClose(s) ==
  /\ sockets[s].readyState \in {"CONNECTING", "OPEN", "CLOSING"}
  /\ HookEvent(onclose([Hook EXCEPT !.sockets[s].readyState = "CLOSED"],
                       sockets[s].url))
  /\ UNCHANGED <<websocketUrl, urlChanges, nanoidCount, isPausedState, histVars>>

ReconnectTimerFire(t) ==
  /\ t \in reconnectTimers
  /\ HookEvent(reconnectCallback([Hook EXCEPT !.reconnectTimers = @ \ {t}], t.url))
  /\ UNCHANGED <<websocketUrl, urlChanges, nanoidCount, isPausedState, histVars>>

\* SocketMessage in the specifications of the ingestion buffer, which take
\* a frame more so that a batch of two records is flushed onto a non-empty
\* list.
SocketMessageBurst(s, data) ==
  /\ sockets[s].readyState = "OPEN"
  /\ clock < MaxBurst
  /\ clock' = clock + 1
  /\ held' = IF isPaused THEN held \cup {clock + 1} ELSE held
  /\ pausedArrivals' = IF isPaused THEN pausedArrivals \cup {clock + 1}
                                   ELSE pausedArrivals
  /\ HookEvent(onmessage(Hook, data, clock + 1))
  /\ UNCHANGED <<websocketUrl, urlChanges, nanoidCount, isPausedState, everOpened>>

FlushTimerFire ==
  /\ flushTimers > 0
  /\ HookEvent(flushTimerCallback(Hook))
  /\ UNCHANGED <<websocketUrl, urlChanges, nanoidCount, isPausedState, histVars>>

\* ------------------------------------------------------------- user events
\* handlePauseToggle showing the isPaused the hook returned at the last
\* render in place of the value togglePause() returns.
handlePauseToggleStale ==
  /\ mounted
  /\ HookEvent(togglePause(Hook))
  /\ isPausedState' = isPaused
  /\ pausedArrivals' = {}
  /\ held' = IF isPaused
               THEN held
               ELSE held \cup {logBufferRef[i].time : i \in DOMAIN logBufferRef}
  /\ UNCHANGED <<websocketUrl, urlChanges, nanoidCount, clock, everOpened>>

handlePauseToggle ==
  /\ mounted
  /\ HookEvent(togglePause(Hook))
  /\ isPausedState' = ~isPaused
  /\ pausedArrivals' = {}
  /\ held' = IF isPaused
               THEN held
               ELSE held \cup {logBufferRef[i].time : i \in DOMAIN logBufferRef}
  /\ UNCHANGED <<websocketUrl, urlChanges, nanoidCount, clock, everOpened>>

handleClearLogs ==
  /\ mounted
  /\ Render(clearLogs(Hook),
            [i \in DOMAIN sessions |->
               IF sessions[i].id = activeSessionId
                 THEN [sessions[i] EXCEPT !.logs = <<>>]
                 ELSE sessions[i]],
            activeSessionId, levelFilters, searchTerm)
  /\ held' = {}
  /\ UNCHANGED <<websocketUrl, urlChanges, nanoidCount, isPausedState, clock,
                 everOpened, pausedArrivals>>

handleNewSession ==
  /\ mounted
  /\ nanoidCount < MaxSessionIds
  /\ nanoidCount' = nanoidCount + 1
  /\ Render(Hook,
            Append(sessions, [id |-> nanoidCount + 1,
                              websocketUrl |-> websocketUrl,
                              logs |-> <<>>]),
            nanoidCount + 1, levelFilters, searchTerm)
  /\ UNCHANGED <<websocketUrl, urlChanges, isPausedState, histVars>>

\* handleRemoveSession without the only-session check.
handleRemoveSessionUnguarded(sessionId) ==
  /\ mounted
  /\ LET newSessions == SelectSeq(sessions, LAMBDA x : x.id # sessionId)
     IN /\ Render(Hook, newSessions,
                  IF sessionId = activeSessionId /\ Len(newSessions) > 0
                    THEN newSessions[1].id
                    ELSE activeSessionId,
                  levelFilters, searchTerm)
        /\ UNCHANGED <<websocketUrl, urlChanges, nanoidCount, isPausedState,
                       histVars>>

\* handleRemoveSession without the hand-over of the active session.
handleRemoveSessionKeepActive(sessionId) ==
  /\ mounted
  /\ IF Len(sessions) <= 1
       THEN UNCHANGED vars
       ELSE /\ Render(Hook, SelectSeq(sessions, LAMBDA x : x.id # sessionId),
                      activeSessionId, levelFilters, searchTerm)
            /\ UNCHANGED <<websocketUrl, urlChanges, nanoidCount, isPausedState,
                           histVars>>

handleRemoveSession(sessionId) ==
  /\ mounted
  /\ IF Len(sessions) <= 1
       THEN UNCHANGED vars
       ELSE LET newSessions == SelectSeq(sessions, LAMBDA x : x.id # sessionId)
            IN /\ Render(Hook, newSessions,
                         IF sessionId = activeSessionId
                           THEN newSessions[1].id
                           ELSE activeSessionId,
                         levelFilters, searchTerm)
               /\ UNCHANGED <<websocketUrl, urlChanges, nanoidCount, isPausedState,
                              histVars>>

\* Tabs onValueChange: the user selects the tab of an existing session.
setActiveSessionId(id) ==
  /\ mounted
  /\ Render(Hook, sessions, id, levelFilters, searchTerm)
  /\ UNCHANGED <<websocketUrl, urlChanges, nanoidCount, isPausedState, histVars>>

setSearchTerm(st) ==
  /\ mounted
  /\ Render(Hook, sessions, activeSessionId, levelFilters, st)
  /\ UNCHANGED <<websocketUrl, urlChanges, nanoidCount, isPausedState, histVars>>

\* LogLevelFilter: the aggregate control.  filters[level] is undefined, so
\* falsy, for a level that is no key of the mapping.
allChecked(filters) ==
  \A i \in DOMAIN levels : levels[i] \in DOMAIN filters /\ filters[levels[i]]

\* someChecked as it was before "&& !allChecked" was added (the earlier
\* version of the component).
someCheckedAny(filters) ==
  \E i \in DOMAIN levels : levels[i] \in DOMAIN filters /\ filters[levels[i]]

someChecked(filters) ==
  /\ \E i \in DOMAIN levels : levels[i] \in DOMAIN filters /\ filters[levels[i]]
  /\ ~allChecked(filters)

\* The Checkbox of components/ui/checkbox, which is given checked =
\* allChecked and the indeterminate styling when someChecked, and what it
\* shows for them.
Checkbox(checked, indeterminate) ==
  IF checked THEN "all-on"
  ELSE IF indeterminate THEN "indeterminate"
  ELSE "all-off"

\* What the "All Levels" control shows.
allLevels == Checkbox(allChecked(levelFilters), someChecked(levelFilters))

\* LogLevelFilter
handleToggleFilter(level) ==
  /\ mounted
  /\ Render(Hook, sessions, activeSessionId,
            [l \in DOMAIN levelFilters \cup {level} |->
               IF l # level THEN levelFilters[l]
               ELSE IF level \in DOMAIN levelFilters THEN ~levelFilters[level]
               ELSE TRUE],
            searchTerm)
  /\ UNCHANGED <<websocketUrl, urlChanges, nanoidCount, isPausedState, histVars>>

handleToggleAll(checked) ==
  /\ mounted
  /\ Render(Hook, sessions, activeSessionId,
            [l \in DOMAIN levelFilters \cup {levels[i] : i \in DOMAIN levels} |->
               IF \E i \in DOMAIN levels : levels[i] = l THEN checked
                                                         ELSE levelFilters[l]],
            searchTerm)
  /\ UNCHANGED <<websocketUrl, urlChanges, nanoidCount, isPausedState, histVars>>

\* Index.handleConnectClick: the parent hands down a new websocketUrl; the
\* existing sessions keep the endpoint they were created with.
handleConnectClick(inputUrl) ==
  /\ mounted
  /\ urlChanges < MaxUrlChanges
  /\ inputUrl # websocketUrl
  /\ websocketUrl' = inputUrl
  /\ urlChanges' = urlChanges + 1
  /\ UNCHANGED <<mounted, sessions, activeSessionId, nanoidCount, searchTerm,
                 levelFilters, filteredLogs, levelCounts, isPausedState,
                 hookVars, histVars>>

\* Disposal of the component: the cleanup of the connect effect runs.
Unmount ==
  /\ mounted
  /\ HookEvent([effectCleanup(Hook) EXCEPT !.mounted = FALSE])
  /\ UNCHANGED <<websocketUrl, urlChanges, nanoidCount, isPausedState, histVars>>

\* ------------------------------------------------------------ specifications
\* Next is the whole program.  The specifications the properties are checked
\* under are sub-relations of it (same Init, a subset of the events), each
\* holding every event that writes the state its properties read; the one
\* exception is SpecSetActive, which widens the ids setActiveSessionId gets.
ConnectionEvents ==
  \/ \E s \in DOMAIN sockets : SocketOpen(s)
  \/ \E s \in DOMAIN sockets : SocketClose(s)
  \/ \E t \in reconnectTimers : ReconnectTimerFire(t)

SessionEvents ==
  \/ handleNewSession
  \/ \E i \in DOMAIN sessions : handleRemoveSession(sessions[i].id)
  \/ \E i \in DOMAIN sessions : setActiveSessionId(sessions[i].id)
  \/ \E u \in Urls : handleConnectClick(u)

FilterEvents ==
  \/ \E st \in SearchTerms : setSearchTerm(st)
  \/ \E l \in LogLevels : handleToggleFilter(l)
  \/ \E b \in BOOLEAN : handleToggleAll(b)

Next ==
  \/ ConnectionEvents
  \/ FlushTimerFire
  \/ \E s \in DOMAIN sockets : \E data \in Frames : SocketMessage(s, data)
  \/ handlePauseToggle
  \/ handleClearLogs
  \/ SessionEvents
  \/ FilterEvents
  \/ Unmount

Spec == Init /\ [][Next]_vars

\* One session's pipeline: connection manager and ingestion buffer.
NextPipeline ==
  \/ ConnectionEvents
  \/ FlushTimerFire
  \/ \E s \in DOMAIN sockets : \E data \in Frames : SocketMessage(s, data)
  \/ handlePauseToggle
  \/ handleClearLogs

SpecPipeline == Init /\ [][NextPipeline]_vars

\* The session registry over an ingesting pipeline; every session is bound
\* to the endpoint the page started with.
NextRegistry ==
  \/ \E s \in DOMAIN sockets : SocketOpen(s)
  \/ \E s \in DOMAIN sockets : \E data \in SessionFrames : SocketMessage(s, data)
  \/ FlushTimerFire
  \/ handleClearLogs
  \/ handleNewSession
  \/ \E i \in DOMAIN sessions : handleRemoveSession(sessions[i].id)
  \/ \E i \in DOMAIN sessions : setActiveSessionId(sessions[i].id)

SpecRegistry == Init /\ [][NextRegistry]_vars

\* Sessions bound to different endpoints: the connection manager under
\* endpoint changes.
NextEndpoints ==
  \/ ConnectionEvents
  \/ SessionEvents

SpecEndpoints == Init /\ [][NextEndpoints]_vars

\* The filter and search engine over an ingesting session.
NextFilter ==
  \/ \E s \in DOMAIN sockets : SocketOpen(s)
  \/ \E s \in DOMAIN sockets : \E data \in Frames : SocketMessage(s, data)
  \/ FlushTimerFire
  \/ handleClearLogs
  \/ FilterEvents

SpecFilter == Init /\ [][NextFilter]_vars

\* One session's pipeline up to and after the disposal of the component.
NextDisposal ==
  \/ ConnectionEvents
  \/ FlushTimerFire
  \/ \E s \in DOMAIN sockets : \E data \in SessionFrames : SocketMessage(s, data)
  \/ Unmount

SpecDisposal == Init /\ [][NextDisposal]_vars

\* The session registry with setActiveSessionId called by any caller of the
\* component's operations: the id is any id nanoid() may hand out, whether a
\* session holds it at the time or not (the tab strip itself offers the ids
\* of the existing sessions only, as in SessionEvents).
SessionIds == 0..MaxSessionIds

NextSetActive ==
  \/ \E s \in DOMAIN sockets : SocketOpen(s)
  \/ \E s \in DOMAIN sockets : \E data \in SessionFrames : SocketMessage(s, data)
  \/ FlushTimerFire
  \/ handleNewSession
  \/ \E i \in DOMAIN sessions : handleRemoveSession(sessions[i].id)
  \/ \E id \in SessionIds : setActiveSessionId(id)

SpecSetActive == Init /\ [][NextSetActive]_vars

\* The connection manager under a change to an endpoint that passes the
\* scheme check and that the WebSocket constructor rejects: the text "ws://"
\* typed into the page's input box.
NextUnparsable ==
  \/ ConnectionEvents
  \/ handleNewSession
  \/ handleConnectClick(wsScheme)

SpecUnparsable == Init /\ [][NextUnparsable]_vars

\* The connection manager across an endpoint the WebSocket constructor
\* rejects and the return to a session whose endpoint it accepts, with a
\* server that accepts no connection: every socket ends in a close event.
NextReopen ==
  \/ \E s \in DOMAIN sockets : SocketClose(s)
  \/ \E t \in reconnectTimers : ReconnectTimerFire(t)
  \/ handleNewSession
  \/ \E i \in DOMAIN sessions : setActiveSessionId(sessions[i].id)
  \/ handleConnectClick(wsScheme)

SpecReopen == Init /\ [][NextReopen]_vars

\* What localStorage.getItem('logLevelFilters') returns when the component
\* mounts: null, a text JSON.parse rejects, or a JSON text, represented by
\* the value JSON.parse returns for it: a mapping of all four severities (what
\* the save effect writes) or of one severity only.
SavedFilters ==
  { [present |-> FALSE, json |-> FALSE, value |-> <<>>],
    [present |-> TRUE, json |-> FALSE, value |-> <<>>],
    [present |-> TRUE, json |-> TRUE, value |-> [l \in LogLevels |-> TRUE]],
    [present |-> TRUE, json |-> TRUE, value |-> [l \in LogLevels |-> l # "INFO"]],
    [present |-> TRUE, json |-> TRUE, value |-> [l \in {"INFO"} |-> FALSE]] }

\* The load effect: setLevelFilters(JSON.parse(savedFilters)) when an item
\* is stored, the state as it is when there is none or JSON.parse throws.
loadSavedFilters(savedFilters, current) ==
  IF savedFilters.present /\ savedFilters.json
    THEN savedFilters.value
    ELSE current

\* The state after construction and the mount effects in a browser that
\* holds any of SavedFilters: Init with the level filters the load effect
\* leaves.  The save effect writes them back to storage, which is not read
\* again while the component is mounted.
InitStored ==
  /\ websocketUrl = DefaultUrl
  /\ urlChanges = 0
  /\ mounted = TRUE
  /\ sessions = <<[id |-> 0, websocketUrl |-> DefaultUrl, logs |-> <<>>]>>
  /\ activeSessionId = 0
  /\ nanoidCount = 0
  /\ searchTerm = <<>>
  /\ \E savedFilters \in SavedFilters :
       levelFilters = loadSavedFilters(savedFilters, [l \in LogLevels |-> TRUE])
  /\ filteredLogs = <<>>
  /\ levelCounts = [l \in LogLevels |-> 0]
  /\ isPausedState = FALSE
  /\ logs = <<>>
  /\ status = "connecting"
  /\ sockets = <<[url |-> DefaultUrl, readyState |-> "CONNECTING"]>>
  /\ socketRef = 1
  /\ reconnectAttemptsRef = 0
  /\ reconnectTimeoutRef = 0
  /\ reconnectTimers = {}
  /\ timerSeq = 0
  /\ isPaused = FALSE
  /\ logBufferRef = <<>>
  /\ processingRef = FALSE
  /\ flushTimers = 0
  /\ clock = 0
  /\ enqueued = 0
  /\ everOpened = FALSE
  /\ held = {}
  /\ pausedArrivals = {}

\* The filter and search engine started from stored level filters.
SpecStored == InitStored /\ [][NextFilter]_vars

\* The ingestion buffer of one session on an open connection.
NextBuffer ==
  \/ \E s \in DOMAIN sockets : SocketOpen(s)
  \/ \E s \in DOMAIN sockets : \E data \in SessionFrames : SocketMessageBurst(s, data)
  \/ FlushTimerFire
  \/ handlePauseToggle
  \/ handleClearLogs

SpecBuffer == Init /\ [][NextBuffer]_vars

\* The buffer with fair timers: a timer set with setTimeout fires.
SpecBufferFair == SpecBuffer /\ WF_vars(FlushTimerFire)

\* ================================================================ properties
times(lg) == {lg[i].time : i \in DOMAIN lg}

\* ----------------------------------------------------------------------- C1
\* C1: after resume(), every record that arrived while the buffer was paused
\* and every record still pending when pause() was called appears in the
\* visible list without a further frame having to arrive.  Stated on the
\* states in which nothing further can happen to the buffer unless a frame
\* arrives: the buffer is not paused and no throttle timer is pending; there
\* every record held back by a pause since the last clear is in the list.
C1_ResumedBufferDelivers ==
  (mounted /\ ~isPaused /\ flushTimers = 0) => held \subseteq times(logs)

\* ----------------------------------------------------------------------- C2
\* C2: the number of records appended to the pending queue equals the number
\* of frames received, whether or not the buffer is paused.
C2_OneRecordPerFrame == enqueued = clock

\* ----------------------------------------------------------------------- C3
\* C3: a record that arrives while the buffer is paused is not in the visible
\* list in any state before the next resume().
C3_PausedArrivalsHidden ==
  isPaused => times(logs) \cap pausedArrivals = {}

\* A frame arrived during the pause, and the throttle timer of an earlier
\* flush has fired while paused.
C3_Witness ==
  /\ isPaused
  /\ pausedArrivals # {}
  /\ Len(logs) > 0
  /\ flushTimers = 0

\* ----------------------------------------------------------------------- C4
AllSocketsClosed == \A s \in DOMAIN sockets : sockets[s].readyState = "CLOSED"

\* C4: with auto-reconnect and max_reconnect_attempts = N, when every
\* connection attempt ends in a close without a successful open, no more than
\* N reconnects are made and no more than N reconnect timers are ever
\* scheduled; once every attempt has failed and no timer is pending, exactly
\* N reconnects have been made and the state is disconnected.
C4_ReconnectCap ==
  (autoReconnect /\ ~everOpened) =>
    /\ Len(sockets) <= maxReconnectAttempts + 1
    /\ timerSeq <= maxReconnectAttempts
    /\ Cardinality(reconnectTimers) <= 1
    /\ (AllSocketsClosed /\ reconnectTimers = {}) =>
         /\ Len(sockets) = maxReconnectAttempts + 1
         /\ reconnectAttemptsRef = maxReconnectAttempts
         /\ status = "disconnected"

\* The N-th reconnect has failed: nothing is pending any more.
C4_Witness ==
  /\ ~everOpened
  /\ Len(sockets) = maxReconnectAttempts + 1
  /\ AllSocketsClosed
  /\ reconnectTimers = {}

\* ----------------------------------------------------------------------- C5
validEndpoint(url) == startsWith(url, wsScheme) \/ startsWith(url, wssScheme)

\* The url option of useWebSocket: the endpoint of the active session.
endpoint == activeSession(sessions, activeSessionId).websocketUrl

\* C5: open(endpoint) with an endpoint starting with ws:// or wss:// moves
\* the state to connecting and creates a connection; with any other endpoint
\* it ends in state disconnected and creates no connection, and while that
\* endpoint stays in place no event (the close of the previously open socket
\* included) schedules a reconnect or creates a connection.
C5_OpenByScheme ==
  [][/\ (endpoint' # endpoint /\ validEndpoint(endpoint')) =>
          (status' = "connecting" /\ Len(sockets') = Len(sockets) + 1)
     /\ (endpoint' # endpoint /\ ~validEndpoint(endpoint')) =>
          (status' = "disconnected" /\ Len(sockets') = Len(sockets))
     /\ (endpoint' = endpoint /\ ~validEndpoint(endpoint)) =>
          (timerSeq' = timerSeq /\ Len(sockets') = Len(sockets))]_vars

\* ----------------------------------------------------------------------- C6
\* C6: the number of sessions is at least one in every state, and from a
\* state with exactly one session no step removes that session or, unless it
\* creates a session, changes the active session.
C6_LastSessionKept ==
  /\ Len(sessions) >= 1
  /\ [][/\ Len(sessions') >= 1
        /\ Len(sessions) = 1 =>
             /\ sessions'[1].id = sessions[1].id
             /\ Len(sessions') = 1 => activeSessionId' = activeSessionId]_vars

\* A session was created and a session was removed: one session is left, on
\* which remove_session is a no-op.
C6_Witness ==
  /\ Len(sessions) = 1
  /\ nanoidCount >= 1

\* ----------------------------------------------------------------------- C7
ExactlyOneActive ==
  Cardinality({i \in DOMAIN sessions : sessions[i].id = activeSessionId}) = 1

\* C7: in every state the active-session id is the id of exactly one existing
\* session, and a step that removes the active session makes the first
\* remaining session the active one.
C7_OneActiveSession ==
  /\ ExactlyOneActive
  /\ [][/\ ExactlyOneActive'
        /\ (/\ Len(sessions') < Len(sessions)
            /\ \A i \in DOMAIN sessions' : sessions'[i].id # activeSessionId) =>
             activeSessionId' = sessions'[1].id]_vars

\* The default session, active at the start, has been removed and two
\* sessions remain.
C7_Witness ==
  /\ Len(sessions) = 2
  /\ \A i \in DOMAIN sessions : sessions[i].id # 0
  /\ activeSessionId = sessions[1].id

\* ----------------------------------------------------------------------- C8
shownLogs == activeSession(sessions, activeSessionId).logs

RECURSIVE IsSubsequence(_, _)
IsSubsequence(a, b) ==
  IF Len(a) = 0 THEN TRUE
  ELSE IF Len(b) = 0 THEN FALSE
  ELSE IF Head(a) = Head(b) THEN IsSubsequence(Tail(a), Tail(b))
  ELSE IsSubsequence(a, Tail(b))

\* C8: filtered_records is a subsequence of the active session's records, in
\* the same relative order, and a change of the level filters or of the
\* query leaves the records unchanged.
C8_FilterIsSubsequence ==
  /\ [](IsSubsequence(filteredLogs, shownLogs))
  /\ [][(searchTerm' # searchTerm \/ levelFilters' # levelFilters) =>
          (sessions' = sessions /\ logs' = logs)]_vars

\* Two records are shown out of a longer or equal list, and one is filtered
\* out of a list of two.
C8_Witness ==
  /\ Len(shownLogs) = 2
  /\ Len(filteredLogs) = 1
  /\ filteredLogs[1] = shownLogs[2]

\* ----------------------------------------------------------------------- C9
\* C9: the four per_level_counts sum to the number of records of the active
\* session's list.
C9_CountsSumToLength ==
  levelCounts["DEBUG"] + levelCounts["INFO"] + levelCounts["WARNING"]
    + levelCounts["ERROR"] = Len(shownLogs)

\* ---------------------------------------------------------------------- C10
\* C10: a record passes the filter iff its severity is enabled and the query
\* is shorter than 2 characters or is, case-insensitively, a substring of
\* message, source_name or source_function.
C10_InclusionRule ==
  LET passes(log) ==
        /\ log.level \in DOMAIN levelFilters
        /\ levelFilters[log.level]
        /\ \/ Len(searchTerm) < 2
           \/ includes(toLowerCase(log.message), toLowerCase(searchTerm))
           \/ includes(toLowerCase(log.name), toLowerCase(searchTerm))
           \/ includes(toLowerCase(log.function), toLowerCase(searchTerm))
  IN filteredLogs = SelectSeq(shownLogs, passes)

\* ---------------------------------------------------------------------- C11
\* C11: for each of the four severities, per_level_counts holds the number of
\* records of that severity in the full record list of the active session,
\* whatever the level filters and the search query are.
C11_CountsOverFullList ==
  \A l \in LogLevels :
    levelCounts[l] = Cardinality({i \in DOMAIN shownLogs : shownLogs[i].level = l})

\* Records INFO, ERROR with INFO disabled: the filtered list holds only the
\* ERROR record and INFO is still counted.
C11_Witness ==
  /\ Len(shownLogs) = 2
  /\ {shownLogs[i].level : i \in DOMAIN shownLogs} = {"INFO", "ERROR"}
  /\ ~levelFilters["INFO"]
  /\ Len(filteredLogs) = 1
  /\ filteredLogs[1].level = "ERROR"
  /\ levelCounts["INFO"] = 1

\* ---------------------------------------------------------------------- C12
\* C12: running the flush-trigger logic when the pending queue is empty
\* leaves the visible list unchanged, does not set the in-progress flag and
\* schedules no throttle timer, however many times it is repeated.  Stated
\* of processLogBuffer applied once and twice in every reachable state with
\* an empty queue, and of the step of the throttle timer's callback that
\* finds the queue empty.
C12_EmptyFlushIsNoOp ==
  /\ [](Len(logBufferRef) = 0 =>
         LET once == processLogBuffer(Hook)
             twice == processLogBuffer(once)
         IN /\ once.logs = logs /\ twice.logs = logs
            /\ once.processingRef = processingRef
            /\ twice.processingRef = processingRef
            /\ once.flushTimers = flushTimers /\ twice.flushTimers = flushTimers)
  /\ [][(FlushTimerFire /\ Len(logBufferRef) = 0) =>
          /\ logs' = logs
          /\ ~processingRef'
          /\ flushTimers' = flushTimers - 1
          /\ logBufferRef' = <<>>]_vars

\* The throttle timer has fired on an empty queue: the buffer is idle, not
\* paused, and only the empty-queue check keeps a flush from starting.
C12_Witness ==
  /\ mounted
  /\ Len(logs) > 0
  /\ Len(logBufferRef) = 0
  /\ ~processingRef
  /\ ~isPaused
  /\ flushTimers = 0

\* ---------------------------------------------------------------------- C13
\* C13: after the teardown of a pipeline (here: the disposal of the
\* component) no reconnect timer and no flush timer of that pipeline is
\* pending, its connection is closing or closed, and no connection is being
\* opened or open, also after the close event of the socket closed by the
\* teardown has been delivered.
C13_TeardownIsFinal ==
  ~mounted =>
    /\ reconnectTimers = {}
    /\ flushTimers = 0
    /\ \A s \in DOMAIN sockets : sockets[s].readyState \in {"CLOSING", "CLOSED"}

\* ---------------------------------------------------------------------- C14
\* C14: every record in any session's record list has a severity in
\* {DEBUG, INFO, WARNING, ERROR}: a payload that is no valid record is
\* replaced by a placeholder ERROR record and never forwarded as it is.
C14_RecordsHaveKnownLevel ==
  \A i \in DOMAIN sessions :
    \A j \in DOMAIN sessions[i].logs : sessions[i].logs[j].level \in LogLevels

\* ---------------------------------------------------------------------- C15
\* The records with receipt time t in the visible list or the pending queue.
receivedAt(lg, buf, t) ==
  {lg[i] : i \in {j \in DOMAIN lg : lg[j].time = t}}
    \cup {buf[i] : i \in {j \in DOMAIN buf : buf[j].time = t}}

\* C15: the placeholder record synthesized on a decode failure has severity
\* ERROR, a message that embeds the raw payload, source_name = "connection",
\* source_function = "on_receive" and source_line = 0.
C15_PlaceholderIdentity ==
  [][\A s \in DOMAIN sockets : \A data \in Frames :
       (~data.json /\ SocketMessage(s, data)) =>
         \A r \in receivedAt(logs', logBufferRef', clock') :
           /\ r.level = "ERROR"
           /\ includes(r.message, data.raw)
           /\ r.name = <<"c", "o", "n", "n", "e", "c", "t", "i", "o", "n">>
           /\ r.function = <<"o", "n", "_", "r", "e", "c", "e", "i", "v", "e">>
           /\ r.line = 0]_vars

\* C15 as amended: the placeholder record synthesized on a decode failure has
\* severity ERROR, a message that embeds the raw payload, source_name =
\* "websocket", source_function = "onmessage" and source_line = 0.
C15_PlaceholderRecord ==
  [][\A s \in DOMAIN sockets : \A data \in Frames :
       (~data.json /\ SocketMessage(s, data)) =>
         \A r \in receivedAt(logs', logBufferRef', clock') :
           /\ r.level = "ERROR"
           /\ includes(r.message, data.raw)
           /\ r.name = <<"w", "e", "b", "s", "o", "c", "k", "e", "t">>
           /\ r.function = <<"o", "n", "m", "e", "s", "s", "a", "g", "e">>
           /\ r.line = 0]_vars

\* An undecodable frame has been delivered and its placeholder is in the
\* visible list.
C15_Witness ==
  \E i \in DOMAIN logs :
    /\ logs[i].level = "ERROR"
    /\ logs[i].line = 0
    /\ \E data \in Frames : ~data.json /\ includes(logs[i].message, data.raw)

\* ---------------------------------------------------------------------- C16
\* C16: switching the active session changes only the active pointer: it
\* closes no connection, opens no connection and changes no connection
\* state, also when the sessions are bound to different endpoints.
C16_SwitchKeepsConnections ==
  [][(\E i \in DOMAIN sessions :
        sessions[i].id # activeSessionId /\ setActiveSessionId(sessions[i].id)) =>
       /\ sockets' = sockets
       /\ socketRef' = socketRef
       /\ status' = status
       /\ reconnectTimers' = reconnectTimers]_vars

\* ---------------------------------------------------------------------- C17
\* C17: create_session adds one session with an id different from every
\* existing id and makes it the active session; once the operation and the
\* state synchronisation it triggers are complete its record list is empty,
\* whatever records other sessions hold, and the record lists of the other
\* sessions are unchanged.
C17_NewSessionIsEmpty ==
  [][handleNewSession =>
       LET n == Len(sessions')
       IN /\ n = Len(sessions) + 1
          /\ \A i \in DOMAIN sessions : sessions'[n].id # sessions[i].id
          /\ activeSessionId' = sessions'[n].id
          /\ sessions'[n].logs = <<>>
          /\ \A i \in DOMAIN sessions : sessions'[i] = sessions[i]]_vars

\* ---------------------------------------------------------------------- C18
\* C18: clear_active_logs empties the active session's record list and its
\* buffer's pending queue and leaves the record list of every other session
\* unchanged.
C18_ClearOnlyActive ==
  [][handleClearLogs =>
       /\ activeSession(sessions', activeSessionId').logs = <<>>
       /\ logs' = <<>>
       /\ logBufferRef' = <<>>
       /\ Len(sessions') = Len(sessions)
       /\ \A i \in DOMAIN sessions :
            sessions[i].id # activeSessionId => sessions'[i] = sessions[i]]_vars

\* The list of the active session has been cleared while another session
\* holds records.
C18_Witness ==
  /\ Len(sessions) = 2
  /\ clock > 0
  /\ logs = <<>>
  /\ shownLogs = <<>>
  /\ \E i \in DOMAIN sessions :
       sessions[i].id # activeSessionId /\ Len(sessions[i].logs) > 0

C20_RemoveClosesConnection ==
  [][\A i \in DOMAIN sessions :
       (/\ Len(sessions) > 1
        /\ sessions[i].id = activeSessionId
        /\ handleRemoveSession(sessions[i].id)) =>
         /\ socketRef # 0 =>
              sockets'[socketRef].readyState \in {"CLOSING", "CLOSED"}
         /\ \A j \in DOMAIN sessions' :
              \E k \in DOMAIN sessions : sessions'[j] = sessions[k]]_vars

\* ---------------------------------------------------------------------- C21
records(lg) == {lg[i] : i \in DOMAIN lg}

\* C21: a record appears in a session's record list only if it was received
\* over that session's own connection.  Creating, switching and removing
\* sessions receive nothing: after such a step the list of every session
\* holds only records that the same session held before the step.
C21_RecordsStayInOwnSession ==
  [][(\/ handleNewSession
      \/ \E i \in DOMAIN sessions : handleRemoveSession(sessions[i].id)
      \/ \E i \in DOMAIN sessions : setActiveSessionId(sessions[i].id)) =>
       \A j \in DOMAIN sessions' :
         \A r \in records(sessions'[j].logs) :
           \E i \in DOMAIN sessions :
             sessions[i].id = sessions'[j].id /\ r \in records(sessions[i].logs)]_vars

\* ---------------------------------------------------------------------- C22
\* C22: a session's record list only grows: a record once in a session's
\* list is in it after every step that leaves the session in place, except
\* a clear_active_logs step taken while that session is active.
C22_ListsOnlyGrow ==
  [][\A i \in DOMAIN sessions : \A j \in DOMAIN sessions' :
       (/\ sessions'[j].id = sessions[i].id
        /\ ~(handleClearLogs /\ sessions[i].id = activeSessionId)) =>
         records(sessions[i].logs) \subseteq records(sessions'[j].logs)]_vars

\* ---------------------------------------------------------------------- C23
\* C23: the reported state describes the most recently created socket: it is
\* connected only while that socket is open, and an open or close event of a
\* socket that a later connect() has superseded changes neither the state
\* nor the reconnect schedule.
C23_StateFollowsLatestSocket ==
  /\ [](status = "connected" => sockets[Len(sockets)].readyState = "OPEN")
  /\ [][\A s \in DOMAIN sockets :
          (s < Len(sockets) /\ (SocketOpen(s) \/ SocketClose(s))) =>
            /\ status' = status
            /\ reconnectTimers' = reconnectTimers
            /\ timerSeq' = timerSeq]_vars

\* ---------------------------------------------------------------------- C24
\* C24: in every reachable state at most one reconnect timer is pending and
\* at most one socket is connecting or open.
C24_OneTimerOneSocket ==
  /\ Cardinality(reconnectTimers) <= 1
  /\ Cardinality({s \in DOMAIN sockets :
                   sockets[s].readyState \in {"CONNECTING", "OPEN"}}) <= 1

\* ---------------------------------------------------------------------- C25
\* C25: in every reachable state the reconnect-attempt counter is at least 0
\* and at most max_reconnect_attempts.
C25_CounterWithinCap ==
  0 <= reconnectAttemptsRef /\ reconnectAttemptsRef <= maxReconnectAttempts

\* ---------------------------------------------------------------------- C26
\* C26: every change of the connection state is one of connecting ->
\* connected, connecting -> disconnected, connected -> disconnected or
\* disconnected -> connecting.
C26_StateMachine ==
  [][status' # status =>
       <<status, status'>> \in { <<"connecting", "connected">>,
                                 <<"connecting", "disconnected">>,
                                 <<"connected", "disconnected">>,
                                 <<"disconnected", "connecting">> }]_vars

\* ---------------------------------------------------------------------- C27
\* C27: a flush cycle moves the whole pending queue into the visible list in
\* one step: afterwards the pending queue is empty and the visible list is
\* the batch, in arrival order, followed by the previous visible list
\* unchanged.  A flush is a step that makes the visible list longer; its
\* batch is what the step put in front of the previous list.
C27_FlushMovesWholeQueue ==
  [][Len(logs') > Len(logs) =>
       LET n == Len(logs') - Len(logs)
           batch == SubSeq(logs', 1, n)
       IN /\ logBufferRef' = <<>>
          /\ SubSeq(logs', n + 1, Len(logs')) = logs
          /\ SubSeq(batch, 1, Len(logBufferRef)) = logBufferRef
          /\ \A i, j \in 1..n : i < j => batch[i].time < batch[j].time]_vars

\* A batch of two records has been flushed onto a non-empty list.
C27_Witness ==
  /\ Len(logs) = 3
  /\ logs[1].time < logs[2].time
  /\ logs[3].time < logs[1].time
  /\ logBufferRef = <<>>

\* ---------------------------------------------------------------------- C28
\* C28: a session's record list is ordered newest-first: of two records of
\* the list the one received later is at the smaller index, also when both
\* were flushed in the same batch.
C28_NewestFirst ==
  \A k \in DOMAIN sessions :
    LET lg == sessions[k].logs
    IN \A i, j \in DOMAIN lg : i < j => lg[i].time > lg[j].time

\* ---------------------------------------------------------------------- C29
\* C29: at most one flush cycle runs at a time: the in-progress flag is set
\* exactly while the one throttle timer is pending, and while it is set every
\* step other than the firing of that timer moves no batch to the visible
\* list, schedules no throttle timer, and leaves a record that arrives in
\* the pending queue.
C29_OneFlushCycle ==
  /\ [](flushTimers <= 1 /\ (processingRef <=> flushTimers = 1))
  /\ [][(processingRef /\ ~FlushTimerFire) =>
          /\ Len(logs') <= Len(logs)
          /\ flushTimers' = flushTimers
          /\ enqueued' > enqueued =>
               /\ Len(logBufferRef') = Len(logBufferRef) + 1
               /\ logBufferRef'[Len(logBufferRef')].time = clock']_vars

\* A record has arrived during a flush cycle and waits in the queue.
C29_Witness ==
  /\ processingRef
  /\ ~isPaused
  /\ Len(logs) > 0
  /\ Len(logBufferRef) = 2

\* ---------------------------------------------------------------------- C30
\* C30: if the buffer is not paused from the moment a record is enqueued
\* onward and timers are fair, the record eventually appears in the visible
\* list, at the latest when the throttle timer pending at its arrival fires.
\* A queued record that no pause has held back leads to the record being
\* shown, unless the buffer is paused or cleared first; and the firing of
\* the throttle timer of a buffer that is not paused shows every queued
\* record.
C30_QueuedRecordShown ==
  /\ \A t \in 1..MaxBurst :
       (t \in times(logBufferRef) /\ t \notin held /\ ~isPaused)
         ~> \/ t \in times(logs)
            \/ isPaused
            \/ t \notin times(logBufferRef)
  /\ [][(FlushTimerFire /\ ~isPaused) =>
          times(logBufferRef) \subseteq times(logs')]_vars

\* The second record arrived during the flush cycle of the first and has
\* been shown by the firing of the throttle timer, which started a cycle.
C30_Witness ==
  /\ clock = 2
  /\ times(logs) = {1, 2}
  /\ logBufferRef = <<>>
  /\ processingRef
  /\ held = {}

\* ---------------------------------------------------------------------- C31
\* C31: clear() empties the pending queue and the visible list in one step,
\* and no record received before the clear appears in the visible list in
\* any later state, also when a throttle timer was pending at the time of
\* the clear.  After the clear step no record is left in the list or the
\* queue, and every step puts into the list or the queue only records that
\* were in one of them before the step or that the step has received.
C31_ClearedRecordsStayGone ==
  [][/\ handleClearLogs => (logs' = <<>> /\ logBufferRef' = <<>>)
     /\ times(logs') \cup times(logBufferRef') \subseteq
          times(logs) \cup times(logBufferRef) \cup ({clock'} \ {clock})]_vars

\* The list and the queue have been cleared while the throttle timer of a
\* flush was pending, after two frames.
C31_Witness ==
  /\ clock >= 2
  /\ logs = <<>>
  /\ logBufferRef = <<>>
  /\ processingRef
  /\ flushTimers = 1

\* ---------------------------------------------------------------------- C32
\* C32: a successful open sets the state to connected and the reconnect
\* counter to zero, so the cap bounds consecutive failed reconnects only:
\* while the current socket is open the counter is zero, and the close of an
\* open connection finds the counter at zero and sets a reconnect timer for
\* the connection's endpoint, with the whole allowance ahead of it.
C32_OpenResetsCounter ==
  /\ [](socketRef # 0 /\ sockets[socketRef].readyState = "OPEN"
          => reconnectAttemptsRef = 0)
  /\ [][\A s \in DOMAIN sockets :
          /\ (sockets[s].readyState = "CONNECTING" /\ sockets'[s].readyState = "OPEN")
               => (status' = "connected" /\ reconnectAttemptsRef' = 0)
          /\ (sockets[s].readyState = "OPEN" /\ sockets'[s].readyState = "CLOSED")
               => /\ reconnectAttemptsRef' = 0
                  /\ reconnectAttemptsRef' < maxReconnectAttempts
                  /\ \E t \in reconnectTimers' \ reconnectTimers :
                       t.url = sockets[s].url]_vars

\* The second socket exists only through a reconnect that counted one; it
\* opened, then closed, and a reconnect timer is set with the counter at zero.
C32_Witness ==
  /\ Len(sockets) >= 2
  /\ sockets[2].readyState = "CLOSED"
  /\ reconnectAttemptsRef = 0
  /\ reconnectTimers # {}

\* ---------------------------------------------------------------------- C33
\* Every reconnect is used up and nothing is pending: no socket is left to
\* deliver an event and no reconnect timer is set.
ReconnectExhausted ==
  /\ reconnectAttemptsRef >= maxReconnectAttempts
  /\ reconnectTimers = {}
  /\ AllSocketsClosed

\* C33: once ReconnectExhausted is reached the state is disconnected, and it
\* is left by an explicit open only: a step that opens a connection to a new
\* endpoint leaves the reconnect counter below the cap, so that the close of
\* the freshly opened connection is again followed by a reconnect.
C33_ExplicitOpenRecovers ==
  /\ [](ReconnectExhausted => status = "disconnected")
  /\ [][(mounted' /\ endpoint' # endpoint /\ Len(sockets') = Len(sockets) + 1)
          => reconnectAttemptsRef' < maxReconnectAttempts]_vars

\* ---------------------------------------------------------------------- C34
\* C34: in every reachable state the level-filter mapping holds a boolean for
\* each of DEBUG, INFO, WARNING and ERROR, whatever was found in persistent
\* storage at startup.
C34_FourSeveritiesPresent ==
  /\ DOMAIN levelFilters = LogLevels
  /\ \A l \in LogLevels : levelFilters[l] \in BOOLEAN

\* ---------------------------------------------------------------------- C35
enabledLevels ==
  {l \in LogLevels : l \in DOMAIN levelFilters /\ levelFilters[l]}

C36_PauseChangesOnlyFlag ==
  /\ [](isPausedState = isPaused)
  /\ [][handlePauseToggle =>
          /\ isPaused' = ~isPaused
          /\ isPausedState' = isPaused'
          /\ UNCHANGED <<status, sockets, socketRef, reconnectAttemptsRef,
                         reconnectTimeoutRef, reconnectTimers, timerSeq, logs,
                         logBufferRef, processingRef, flushTimers>>]_vars

\* Paused on a connected socket with a record in the list.
C36_Witness ==
  /\ isPaused
  /\ isPausedState
  /\ status = "connected"
  /\ Len(logs) > 0

====
